---- MODULE Spec2Model ----
(***************************************************************************)
(* Tic-tac-toe against a minimax opponent (src/src/main.ts).               *)
(*                                                                         *)
(* The TicTacToe object is modelled field by field.  A JavaScript Map is a *)
(* record [keys, vals]: keys is the sequence of keys in insertion order    *)
(* and vals the function from the keys to their values.  Every method is   *)
(* an operator on the object record `t' (the `this' of the method); the    *)
(* methods that write fields return the updated record.  One action per    *)
(* event handler: the two buttons of the home screen, a click on a cell of *)
(* the board, and the Play Again button.                                   *)
(***************************************************************************)
EXTENDS Integers, Sequences, FiniteSets, TLC

VARIABLES
    started,              \* a TicTacToe object was constructed (home screen replaced)
    gridSize,             \* this.gridSize
    userPlayer,           \* this.userPlayer
    aiPlayer,             \* this.aiPlayer
    scores,               \* this.scores
    winningCombinations,  \* this.winningCombinations
    availableCells,       \* this.availableCells
    board,                \* this.board
    currentPlayer,        \* this.currentPlayer
    winner,               \* this.winner
    pointerEvents,        \* this.boardElement.style.pointerEvents
    cells,                \* data-position of the cell elements of the board element
    winnerElements,       \* number of ".winner" containers (each with a Play Again button)
    search,               \* the getBestMove call of the last handler run, if any
    moves,                \* the moves makeMove accepted since the board was created
    pc                    \* where a procedure run step by step stands

vars == <<started, gridSize, userPlayer, aiPlayer, scores, winningCombinations,
          availableCells, board, currentPlayer, winner, pointerEvents, cells,
          winnerElements, search, moves, pc>>

----------------------------------------------------------------------------
(* Values *)

Null == "null"
Undefined == "undefined"
Players == {"X", "O"}

GridSize == 3
(* mutant of SearchDepth: the search stops right below the candidate move *)
SearchDepthNone == 9 - 9

SearchDepth == 9
NEGATIVE_INFINITY == -2
POSITIVE_INFINITY == 2

Max(a, b) == IF a >= b THEN a ELSE b
Min(a, b) == IF a <= b THEN a ELSE b

(* `${i}${j}` *)
Key(i, j) == ToString(i) \o ToString(j)

----------------------------------------------------------------------------
(* Map<string, string | null>: keys holds the keys in insertion order, vals  *)
(* maps each of them to its value.                                          *)

EmptyMap == [keys |-> <<>>, vals |-> <<>>]

MapHas(m, k) == k \in DOMAIN m.vals

(* Map.get *)
MapGet(m, k) == IF MapHas(m, k) THEN m.vals[k] ELSE Undefined

(* Map.set *)
MapSet(m, k, v) ==
    IF MapHas(m, k)
    THEN [m EXCEPT !.vals[k] = v]
    ELSE [keys |-> Append(m.keys, k), vals |-> m.vals @@ (k :> v)]

(* Map.get and Map.set with a key taken from the map's own keys *)
MapGetOwn(m, k) == m.vals[k]

MapSetOwn(m, k, v) == [m EXCEPT !.vals[k] = v]

(* if (x) on a string | null | undefined *)
Truthy(v) == v \notin {Null, Undefined, ""}

----------------------------------------------------------------------------
(* createBoard *)

RECURSIVE CreateBoardLoop(_, _, _, _)
CreateBoardLoop(n, i, j, m) ==
    IF i >= n THEN m
    ELSE IF j >= n THEN CreateBoardLoop(n, i + 1, 0, m)
    ELSE CreateBoardLoop(n, i, j + 1,
            [board |-> MapSet(m.board, Key(i, j), Null),
             availableCells |-> Append(m.availableCells, Key(i, j))])

CreateBoard(t) ==
    LET r == CreateBoardLoop(t.gridSize, 0, 0,
                             [board |-> EmptyMap, availableCells |-> <<>>])
    IN  [t EXCEPT !.board = r.board, !.availableCells = r.availableCells,
                  !.moves = <<>>]

(* generateWinningCombinations *)

(* Array.from({ length: n }, (_, j) => f[j]) *)
RECURSIVE ArrayFromLoop(_, _, _, _)
ArrayFromLoop(n, f, j, acc) ==
    IF j >= n THEN acc ELSE ArrayFromLoop(n, f, j + 1, Append(acc, f[j]))

ArrayFrom(n, f) == ArrayFromLoop(n, f, 0, <<>>)

Row(n, i) == ArrayFrom(n, [j \in 0..(n - 1) |-> Key(i, j)])
Column(n, i) == ArrayFrom(n, [j \in 0..(n - 1) |-> Key(j, i)])
Diagonal1(n) == ArrayFrom(n, [i \in 0..(n - 1) |-> Key(i, i)])

(* mutant of Diagonal2: the column is counted from gridSize *)
Diagonal2FromGridSize(n) == ArrayFrom(n, [i \in 0..(n - 1) |-> Key(i, n - i)])

Diagonal2(n) == ArrayFrom(n, [i \in 0..(n - 1) |-> Key(i, n - 1 - i)])

(* one turn of the loop, and the two pushes after it *)
PushRowAndColumn(combinations, n, i) == combinations \o <<Row(n, i), Column(n, i)>>

PushDiagonals(combinations, n) == combinations \o <<Diagonal1(n), Diagonal2(n)>>

RECURSIVE RowsAndColumns(_, _, _)
RowsAndColumns(n, i, acc) ==
    IF i >= n THEN acc
    ELSE RowsAndColumns(n, i + 1, PushRowAndColumn(acc, n, i))

GenerateWinningCombinations(t) ==
    [t EXCEPT !.winningCombinations =
        PushDiagonals(RowsAndColumns(t.gridSize, 0, t.winningCombinations),
                      t.gridSize)]

----------------------------------------------------------------------------
(* getWinner: the first combination, in the order of winningCombinations,   *)
(* that one player fills decides, and X is tested before O; then the Draw   *)
(* test over the values of the board.  Every position of a combination is a *)
(* key of the board, both being made of Key(i, j) with 0 <= i, j < gridSize.*)
(* b is t's board: minimax and getBestMove write the one Map that getWinner *)
(* reads.  (Written without auxiliary operators: it is evaluated at every   *)
(* node of the search.)  GetWinnerDrawFirst is a mutant of it: the Draw     *)
(* test comes before the combinations.                                      *)

GetWinnerDrawFirst(t, b) ==
    IF \A i \in 1..Len(b.keys) : b.vals[b.keys[i]] # Null
    THEN "Draw"
    ELSE IF \E i \in 1..Len(t.winningCombinations) :
               \A j \in 1..Len(t.winningCombinations[i]) :
                   b.vals[t.winningCombinations[i][j]] = "X"
         THEN "X"
         ELSE IF \E i \in 1..Len(t.winningCombinations) :
                    \A j \in 1..Len(t.winningCombinations[i]) :
                        b.vals[t.winningCombinations[i][j]] = "O"
              THEN "O"
              ELSE Null

GetWinner(t, b) ==
    IF \E i \in 1..Len(t.winningCombinations) :
          \/ \A j \in 1..Len(t.winningCombinations[i]) :
                b.vals[t.winningCombinations[i][j]] = "X"
          \/ \A j \in 1..Len(t.winningCombinations[i]) :
                b.vals[t.winningCombinations[i][j]] = "O"
    THEN LET first == CHOOSE i \in 1..Len(t.winningCombinations) :
                /\ \/ \A j \in 1..Len(t.winningCombinations[i]) :
                         b.vals[t.winningCombinations[i][j]] = "X"
                   \/ \A j \in 1..Len(t.winningCombinations[i]) :
                         b.vals[t.winningCombinations[i][j]] = "O"
                /\ \A k \in 1..(i - 1) :
                     /\ \E j \in 1..Len(t.winningCombinations[k]) :
                          b.vals[t.winningCombinations[k][j]] # "X"
                     /\ \E j \in 1..Len(t.winningCombinations[k]) :
                          b.vals[t.winningCombinations[k][j]] # "O"
         IN  IF \A j \in 1..Len(t.winningCombinations[first]) :
                   b.vals[t.winningCombinations[first][j]] = "X"
             THEN "X"
             ELSE "O"
    ELSE IF \A i \in 1..Len(b.keys) : b.vals[b.keys[i]] # Null
         THEN "Draw"
         ELSE Null

(* mutant of getAvailableCells: the occupied cells are not filtered out *)
GetAvailableCellsUnfiltered(b) == b.keys

(* getAvailableCells *)
GetAvailableCells(b) == SelectSeq(b.keys, LAMBDA k : MapGetOwn(b, k) = Null)

----------------------------------------------------------------------------
(* minimax: returns the score and the board as the call leaves it *)

Prune(alpha, beta) == alpha >= beta

(* mutant of Revert: the hypothetical placement is left on the board *)
RevertForgotten(b, cell) == b

Revert(b, cell) == MapSetOwn(b, cell, Null)

RECURSIVE Minimax(_, _, _, _, _, _)
RECURSIVE MaxLoop(_, _, _, _, _, _, _, _)
RECURSIVE MinLoop(_, _, _, _, _, _, _, _)

MaxLoop(t, b, avail, i, depth, alpha, beta, bestScore) ==
    IF i > Len(avail) THEN [score |-> bestScore, board |-> b]
    ELSE LET cell == avail[i]
             r == Minimax(t, MapSetOwn(b, cell, t.aiPlayer), depth - 1, alpha, beta, FALSE)
             b2 == Revert(r.board, cell)
             best2 == Max(bestScore, r.score)
             alpha2 == Max(alpha, r.score)
         IN  IF Prune(alpha2, beta) THEN [score |-> best2, board |-> b2]
             ELSE MaxLoop(t, b2, avail, i + 1, depth, alpha2, beta, best2)

MinLoop(t, b, avail, i, depth, alpha, beta, bestScore) ==
    IF i > Len(avail) THEN [score |-> bestScore, board |-> b]
    ELSE LET cell == avail[i]
             r == Minimax(t, MapSetOwn(b, cell, t.userPlayer), depth - 1, alpha, beta, TRUE)
             b2 == Revert(r.board, cell)
             best2 == Min(bestScore, r.score)
             beta2 == Min(beta, r.score)
         IN  IF Prune(alpha, beta2) THEN [score |-> best2, board |-> b2]
             ELSE MinLoop(t, b2, avail, i + 1, depth, alpha, beta2, best2)

Minimax(t, b, depth, alpha, beta, isMaximizing) ==
    LET w == GetWinner(t, b)
    IN  IF w # Null THEN [score |-> t.scores[w], board |-> b]
        ELSE IF depth = 0 THEN [score |-> t.scores["Draw"], board |-> b]
        ELSE IF isMaximizing
             THEN MaxLoop(t, b, GetAvailableCells(b), 1, depth, alpha, beta,
                          NEGATIVE_INFINITY)
             ELSE MinLoop(t, b, GetAvailableCells(b), 1, depth, alpha, beta,
                          POSITIVE_INFINITY)

----------------------------------------------------------------------------
(* getBestMove: returns the move and the board as the call leaves it *)

(* mutant of Better: only a cell that beats a draw is kept *)
BetterThanDraw(score, bestScore) == score > bestScore /\ score > 0

(* mutant of Better: the last cell with the highest score is kept *)
BetterOrEqual(score, bestScore) == score >= bestScore

Better(score, bestScore) == score > bestScore

RECURSIVE BestMoveLoop(_, _, _, _, _, _)

(* mutant of BestMoveLoop: the reply to a candidate is searched as the AI's turn *)
BestMoveLoopOwnTurn(t, b, avail, i, bestScore, bestMove) ==
    IF i > Len(avail) THEN [move |-> bestMove, score |-> bestScore, board |-> b]
    ELSE LET cell == avail[i]
             r == Minimax(t, MapSetOwn(b, cell, t.aiPlayer), SearchDepth,
                          NEGATIVE_INFINITY, POSITIVE_INFINITY, TRUE)
             b2 == Revert(r.board, cell)
         IN  IF Better(r.score, bestScore)
             THEN BestMoveLoop(t, b2, avail, i + 1, r.score, cell)
             ELSE BestMoveLoop(t, b2, avail, i + 1, bestScore, bestMove)

BestMoveLoop(t, b, avail, i, bestScore, bestMove) ==
    IF i > Len(avail) THEN [move |-> bestMove, score |-> bestScore, board |-> b]
    ELSE LET cell == avail[i]
             r == Minimax(t, MapSetOwn(b, cell, t.aiPlayer), SearchDepth,
                          NEGATIVE_INFINITY, POSITIVE_INFINITY, FALSE)
             b2 == Revert(r.board, cell)
         IN  IF Better(r.score, bestScore)
             THEN BestMoveLoop(t, b2, avail, i + 1, r.score, cell)
             ELSE BestMoveLoop(t, b2, avail, i + 1, bestScore, bestMove)

GetBestMove(t) ==
    BestMoveLoop(t, t.board, GetAvailableCells(t.board), 1, NEGATIVE_INFINITY, "")

----------------------------------------------------------------------------
(* makeMove and nextTurn *)

NoSearch == [called |-> FALSE, before |-> EmptyMap, move |-> "", score |-> 0,
             after |-> EmptyMap]

Other(t, p) == IF p = t.aiPlayer THEN t.userPlayer ELSE t.aiPlayer

RECURSIVE MakeMove(_, _)
RECURSIVE NextTurn(_)

(* mutant of NextTurn: the AI never takes its turn *)
NextTurnSkipped(t) == t

NextTurn(t) ==
    IF t.currentPlayer = t.aiPlayer
    THEN LET r == GetBestMove(t)
         IN  MakeMove([t EXCEPT !.board = r.board,
                                !.search = [called |-> TRUE, before |-> t.board,
                                            move |-> r.move, score |-> r.score,
                                            after |-> r.board]],
                      r.move)
    ELSE t

(* mutant of MakeMove: an occupied position is not turned away *)
MakeMoveOverOccupied(t, position) ==
    LET placed == [t EXCEPT !.board = MapSet(t.board, position, t.currentPlayer),
                            !.moves = Append(@, [position |-> position,
                                                 player |-> t.currentPlayer])]
        w == GetWinner(placed, placed.board)
    IN  IF Truthy(w)
        THEN [placed EXCEPT !.winner = w,
                            !.winnerElements = @ + 1,
                            !.pointerEvents = "none"]
        ELSE NextTurn([placed EXCEPT
                           !.currentPlayer = Other(placed, placed.currentPlayer)])

(* mutant of MakeMove: the turn is not handed over after a move *)
MakeMoveTurnKept(t, position) ==
    IF Truthy(MapGet(t.board, position)) THEN t
    ELSE LET placed == [t EXCEPT !.board = MapSet(t.board, position, t.currentPlayer),
                                 !.moves = Append(@, [position |-> position,
                                                      player |-> t.currentPlayer])]
             w == GetWinner(placed, placed.board)
         IN  IF Truthy(w)
             THEN [placed EXCEPT !.winner = w,
                                 !.winnerElements = @ + 1,
                                 !.pointerEvents = "none"]
             ELSE NextTurn(placed)

(* mutant of MakeMove: the board element keeps taking clicks after the end *)
MakeMoveBoardStaysLive(t, position) ==
    IF Truthy(MapGet(t.board, position)) THEN t
    ELSE LET placed == [t EXCEPT !.board = MapSet(t.board, position, t.currentPlayer),
                                 !.moves = Append(@, [position |-> position,
                                                      player |-> t.currentPlayer])]
             w == GetWinner(placed, placed.board)
         IN  IF Truthy(w)
             THEN [placed EXCEPT !.winner = w,
                                 !.winnerElements = @ + 1]
             ELSE NextTurn([placed EXCEPT
                                !.currentPlayer = Other(placed, placed.currentPlayer)])

MakeMove(t, position) ==
    IF Truthy(MapGet(t.board, position)) THEN t
    ELSE LET placed == [t EXCEPT !.board = MapSet(t.board, position, t.currentPlayer),
                                 !.moves = Append(@, [position |-> position,
                                                      player |-> t.currentPlayer])]
             w == GetWinner(placed, placed.board)
         IN  IF Truthy(w)
             THEN [placed EXCEPT !.winner = w,
                                 !.winnerElements = @ + 1,
                                 !.pointerEvents = "none"]
             ELSE NextTurn([placed EXCEPT
                                !.currentPlayer = Other(placed, placed.currentPlayer)])

----------------------------------------------------------------------------
(* constructor, init, resetGame *)

InitialScores == [X |-> 1, O |-> -1, Draw |-> 0]

(* mutant of Scores: the score table is left as initialised *)
ScoresAsInitialised(ai, user) == InitialScores

(* this.scores[this.aiPlayer] = 1; this.scores[this.userPlayer] = -1 *)
Scores(ai, user) == [[InitialScores EXCEPT ![ai] = 1] EXCEPT ![user] = -1]

(* the fields as the constructor sets them, before init() *)
Fields(n, player) ==
    LET ai == IF player = "X" THEN "O" ELSE "X"
    IN  [gridSize |-> n,
         aiPlayer |-> ai,
         userPlayer |-> player,
         currentPlayer |-> "X",
         scores |-> Scores(ai, player),
         board |-> EmptyMap,
         winningCombinations |-> <<>>,
         availableCells |-> <<>>,
         winner |-> Null,
         pointerEvents |-> "auto",
         cells |-> <<>>,
         winnerElements |-> 0,
         search |-> NoSearch,
         moves |-> <<>>]

(* createBoard, generateWinningCombinations, renderBoard *)
Rendered(t) ==
    LET created == GenerateWinningCombinations(CreateBoard(t))
    IN  [created EXCEPT !.cells = created.board.keys]

Init_(t) ==
    IF Rendered(t).currentPlayer = Rendered(t).aiPlayer
    THEN NextTurn(Rendered(t))
    ELSE Rendered(t)

Constructor(n, player) == Init_(Fields(n, player))

(* mutant of ResetGameOf: the new round is opened by X, as the first one is *)
ResetGameOfOpenedByX(t) ==
    LET created == CreateBoard([t EXCEPT !.pointerEvents = "auto"])
        cleared == [created EXCEPT !.winner = Null,
                                   !.currentPlayer = "X",
                                   !.winnerElements = IF @ > 0 THEN @ - 1 ELSE 0]
    IN  IF cleared.currentPlayer = cleared.aiPlayer
        THEN NextTurn(cleared)
        ELSE cleared

ResetGameOf(t) ==
    LET created == CreateBoard([t EXCEPT !.pointerEvents = "auto"])
        cleared == [created EXCEPT !.winner = Null,
                                   !.currentPlayer = t.userPlayer,
                                   !.winnerElements = IF @ > 0 THEN @ - 1 ELSE 0]
    IN  IF cleared.currentPlayer = cleared.aiPlayer
        THEN NextTurn(cleared)
        ELSE cleared

----------------------------------------------------------------------------
(* The object as a record of its fields, and back *)

This ==
    [gridSize |-> gridSize, aiPlayer |-> aiPlayer, userPlayer |-> userPlayer,
     currentPlayer |-> currentPlayer, scores |-> scores, board |-> board,
     winningCombinations |-> winningCombinations,
     availableCells |-> availableCells, winner |-> winner,
     pointerEvents |-> pointerEvents, cells |-> cells,
     winnerElements |-> winnerElements, search |-> NoSearch, moves |-> moves]

Becomes(t) ==
    /\ gridSize' = t.gridSize
    /\ aiPlayer' = t.aiPlayer
    /\ userPlayer' = t.userPlayer
    /\ currentPlayer' = t.currentPlayer
    /\ scores' = t.scores
    /\ board' = t.board
    /\ winningCombinations' = t.winningCombinations
    /\ availableCells' = t.availableCells
    /\ winner' = t.winner
    /\ pointerEvents' = t.pointerEvents
    /\ cells' = t.cells
    /\ winnerElements' = t.winnerElements
    /\ search' = t.search
    /\ moves' = t.moves

(* the fields are those of t *)
Is(t) ==
    /\ gridSize = t.gridSize
    /\ aiPlayer = t.aiPlayer
    /\ userPlayer = t.userPlayer
    /\ currentPlayer = t.currentPlayer
    /\ scores = t.scores
    /\ board = t.board
    /\ winningCombinations = t.winningCombinations
    /\ availableCells = t.availableCells
    /\ winner = t.winner
    /\ pointerEvents = t.pointerEvents
    /\ cells = t.cells
    /\ winnerElements = t.winnerElements
    /\ search = t.search
    /\ moves = t.moves

Idle == [at |-> "idle", avail |-> <<>>, i |-> 0, bestScore |-> 0, bestMove |-> ""]

----------------------------------------------------------------------------
(* The page *)

Init ==
    /\ started = FALSE
    /\ gridSize = 0
    /\ aiPlayer = Null
    /\ userPlayer = Null
    /\ currentPlayer = Null
    /\ scores = InitialScores
    /\ board = EmptyMap
    /\ winningCombinations = <<>>
    /\ availableCells = <<>>
    /\ winner = Null
    /\ pointerEvents = "auto"
    /\ cells = <<>>
    /\ winnerElements = 0
    /\ search = NoSearch
    /\ moves = <<>>
    /\ pc = Idle

(* a click on the X or the O button of the home screen: Game.start *)
Start(player) ==
    /\ ~started
    /\ started' = TRUE
    /\ Becomes(Constructor(GridSize, player))
    /\ UNCHANGED pc

(* a click on the cell element with data-position = position *)
Click(position) ==
    /\ started
    /\ pointerEvents = "auto"
    /\ \E i \in 1..Len(cells) : cells[i] = position
    /\ Truthy(position)
    /\ Becomes(MakeMove(This, position))
    /\ UNCHANGED <<started, pc>>

(* a click on a Play Again button *)
ResetGame ==
    /\ started
    /\ winnerElements > 0
    /\ Becomes(ResetGameOf(This))
    /\ UNCHANGED <<started, pc>>

Positions == {Key(i, j) : i, j \in 0..(GridSize - 1)}

Next ==
    \/ \E player \in Players : Start(player)
    \/ \E position \in Positions : Click(position)
    \/ ResetGame

Spec == Init /\ [][Next]_vars

----------------------------------------------------------------------------
(* The boards of the search: getBestMove and minimax place the marks of the *)
(* two players in turn on empty cells, X first, and go on from a board only *)
(* while getWinner returns null on it.  winner holds what getWinner returns *)
(* on the board.                                                            *)

InitTree ==
    /\ started = TRUE
    /\ pc = Idle
    /\ \E player \in Players : Is(Rendered(Fields(GridSize, player)))

Place(cell) ==
    /\ GetWinner(This, board) = Null
    /\ \E i \in 1..Len(GetAvailableCells(board)) : GetAvailableCells(board)[i] = cell
    /\ board' = MapSetOwn(board, cell, currentPlayer)
    /\ currentPlayer' = Other(This, currentPlayer)
    /\ winner' = GetWinner(This, board')
    /\ UNCHANGED <<started, gridSize, userPlayer, aiPlayer, scores,
                   winningCombinations, availableCells, pointerEvents, cells,
                   winnerElements, search, moves, pc>>

NextTree == \E cell \in Positions : Place(cell)

SpecTree == InitTree /\ [][NextTree]_vars

----------------------------------------------------------------------------
(* Two searches against each other: the player to move runs getBestMove as  *)
(* the AI of its own symbol (the polarity of the score table flipped for    *)
(* the opponent), and its move is placed and checked as makeMove does.  The *)
(* loop of getBestMove runs one step at a time.                             *)

InitSelfPlay ==
    /\ started = TRUE
    /\ pc = Idle
    /\ Is(Rendered(Fields(GridSize, "O")))

(* getBestMove, lines 139-141, by the player to move *)
SelfBegin ==
    /\ pc.at = "idle"
    /\ winner = Null
    /\ aiPlayer' = currentPlayer
    /\ userPlayer' = Other(This, currentPlayer)
    /\ scores' = Scores(currentPlayer, Other(This, currentPlayer))
    /\ pc' = [at |-> "scan", avail |-> GetAvailableCells(board), i |-> 1,
              bestScore |-> NEGATIVE_INFINITY, bestMove |-> ""]
    /\ UNCHANGED <<started, gridSize, winningCombinations, availableCells, board,
                   currentPlayer, winner, pointerEvents, cells, winnerElements,
                   search, moves>>

(* line 144 *)
SelfPlace ==
    /\ pc.at = "scan"
    /\ pc.i <= Len(pc.avail)
    /\ board' = MapSetOwn(board, pc.avail[pc.i], aiPlayer)
    /\ pc' = [pc EXCEPT !.at = "placed"]
    /\ UNCHANGED <<started, gridSize, userPlayer, aiPlayer, scores,
                   winningCombinations, availableCells, currentPlayer, winner,
                   pointerEvents, cells, winnerElements, search, moves>>

(* lines 145-156 *)
SelfScore ==
    /\ pc.at = "placed"
    /\ LET r == Minimax(This, board, SearchDepth, NEGATIVE_INFINITY,
                        POSITIVE_INFINITY, FALSE)
       IN  /\ board' = Revert(r.board, pc.avail[pc.i])
           /\ pc' = IF Better(r.score, pc.bestScore)
                    THEN [pc EXCEPT !.at = "scan", !.i = @ + 1,
                                    !.bestScore = r.score,
                                    !.bestMove = pc.avail[pc.i]]
                    ELSE [pc EXCEPT !.at = "scan", !.i = @ + 1]
    /\ UNCHANGED <<started, gridSize, userPlayer, aiPlayer, scores,
                   winningCombinations, availableCells, currentPlayer, winner,
                   pointerEvents, cells, winnerElements, search, moves>>

(* line 158, and the move placed and checked: makeMove, lines 183-196 *)
SelfMove ==
    /\ pc.at = "scan"
    /\ pc.i > Len(pc.avail)
    /\ ~Truthy(MapGet(board, pc.bestMove))
    /\ board' = MapSet(board, pc.bestMove, currentPlayer)
    /\ IF Truthy(GetWinner(This, board'))
       THEN /\ winner' = GetWinner(This, board')
            /\ winnerElements' = winnerElements + 1
            /\ pointerEvents' = "none"
            /\ UNCHANGED currentPlayer
       ELSE /\ currentPlayer' = Other(This, currentPlayer)
            /\ UNCHANGED <<winner, winnerElements, pointerEvents>>
    /\ moves' = Append(moves, [position |-> pc.bestMove, player |-> currentPlayer])
    /\ pc' = Idle
    /\ UNCHANGED <<started, gridSize, userPlayer, aiPlayer, scores,
                   winningCombinations, availableCells, cells, search>>

NextSelfPlay == SelfBegin \/ SelfPlace \/ SelfScore \/ SelfMove

SpecSelfPlay == InitSelfPlay /\ [][NextSelfPlay]_vars

----------------------------------------------------------------------------
(* generateWinningCombinations for a grid of any size, one turn of its loop *)
(* at a time                                                                *)

MaxGridSize == 13

InitCombinations ==
    /\ started = FALSE
    /\ gridSize \in 1..MaxGridSize
    /\ aiPlayer = Null
    /\ userPlayer = Null
    /\ currentPlayer = Null
    /\ scores = InitialScores
    /\ board = EmptyMap
    /\ winningCombinations = <<>>
    /\ availableCells = <<>>
    /\ winner = Null
    /\ pointerEvents = "auto"
    /\ cells = <<>>
    /\ winnerElements = 0
    /\ search = NoSearch
    /\ moves = <<>>
    /\ pc = [Idle EXCEPT !.at = "rows"]

(* lines 43-50 *)
GenRowAndColumn ==
    /\ pc.at = "rows"
    /\ pc.i < gridSize
    /\ winningCombinations' = PushRowAndColumn(winningCombinations, gridSize, pc.i)
    /\ pc' = [pc EXCEPT !.i = @ + 1]
    /\ UNCHANGED <<started, gridSize, userPlayer, aiPlayer, scores, availableCells,
                   board, currentPlayer, winner, pointerEvents, cells,
                   winnerElements, search, moves>>

(* lines 52-60 *)
GenDiagonals ==
    /\ pc.at = "rows"
    /\ pc.i >= gridSize
    /\ winningCombinations' = PushDiagonals(winningCombinations, gridSize)
    /\ pc' = [pc EXCEPT !.at = "generated"]
    /\ UNCHANGED <<started, gridSize, userPlayer, aiPlayer, scores, availableCells,
                   board, currentPlayer, winner, pointerEvents, cells,
                   winnerElements, search, moves>>

NextCombinations == GenRowAndColumn \/ GenDiagonals

SpecCombinations == InitCombinations /\ [][NextCombinations]_vars

----------------------------------------------------------------------------
(* makeMove called with any position, in the grid or not *)

OutOfRange == Key(GridSize, GridSize)

MakeMoveCall(position) ==
    /\ started
    /\ Becomes(MakeMove(This, position))
    /\ UNCHANGED <<started, pc>>

NextCalls ==
    \/ \E player \in Players : Start(player)
    \/ \E position \in Positions \cup {OutOfRange} : MakeMoveCall(position)

SpecCalls == Init /\ [][NextCalls]_vars

----------------------------------------------------------------------------
(* getBestMove called on the boards of the search that have ended (winner   *)
(* holds what getWinner returns on the board): the call is recorded once it *)
(* has returned.                                                            *)

PlaceBeforeCall(cell) ==
    /\ ~search.called
    /\ Place(cell)

BestMoveCall ==
    /\ ~search.called
    /\ winner # Null
    /\ LET r == GetBestMove(This)
       IN  /\ board' = r.board
           /\ search' = [called |-> TRUE, before |-> board, move |-> r.move,
                         score |-> r.score, after |-> r.board]
    /\ UNCHANGED <<started, gridSize, userPlayer, aiPlayer, scores,
                   winningCombinations, availableCells, currentPlayer, winner,
                   pointerEvents, cells, winnerElements, moves, pc>>

NextBestMoveCalls ==
    \/ \E cell \in Positions : PlaceBeforeCall(cell)
    \/ BestMoveCall

SpecBestMoveCalls == InitTree /\ [][NextBestMoveCalls]_vars

----------------------------------------------------------------------------
(* The game with every search run one step of getBestMove and of minimax   *)
(* at a time.  pc holds the locals of getBestMove (avail, i, bestScore,     *)
(* bestMove), the stack of the minimax calls under way (frames, the         *)
(* innermost last) and the value the last call returned (ret).  pc.at is    *)
(* "idle" between handlers and "turn" where nextTurn is called.             *)

Frame(depth, alpha, beta, isMaximizing) ==
    [depth |-> depth, alpha |-> alpha, beta |-> beta,
     isMaximizing |-> isMaximizing, avail |-> <<>>, i |-> 0, bestScore |-> 0]

Top(frames) == frames[Len(frames)]

Pop(frames) == SubSeq(frames, 1, Len(frames) - 1)

Push(frames, f) == Append(frames, f)

ReplaceTop(frames, f) == [frames EXCEPT ![Len(frames)] = f]

(* the constructor and init, lines 21-35, up to the test of line 36 *)
InitSearch ==
    /\ started = TRUE
    /\ pc = [Idle EXCEPT !.at = "turn"]
    /\ \E player \in Players : Is(Rendered(Fields(GridSize, player)))

(* makeMove by a click of the user, lines 183-196, up to the call of nextTurn *)
SearchUserMove(position) ==
    /\ pc.at = "idle"
    /\ pointerEvents = "auto"
    /\ \E i \in 1..Len(cells) : cells[i] = position
    /\ Truthy(position)
    /\ ~Truthy(MapGet(board, position))
    /\ board' = MapSet(board, position, currentPlayer)
    /\ moves' = Append(moves, [position |-> position, player |-> currentPlayer])
    /\ IF Truthy(GetWinner(This, board'))
       THEN /\ winner' = GetWinner(This, board')
            /\ winnerElements' = winnerElements + 1
            /\ pointerEvents' = "none"
            /\ UNCHANGED <<currentPlayer, pc>>
       ELSE /\ currentPlayer' = Other(This, currentPlayer)
            /\ pc' = [Idle EXCEPT !.at = "turn"]
            /\ UNCHANGED <<winner, winnerElements, pointerEvents>>
    /\ search' = NoSearch
    /\ UNCHANGED <<started, gridSize, userPlayer, aiPlayer, scores,
                   winningCombinations, availableCells, cells>>

(* nextTurn, line 162, when it is not the AI's turn: the handler is over *)
TurnSkipped ==
    /\ pc.at = "turn"
    /\ currentPlayer # aiPlayer
    /\ pc' = Idle
    /\ UNCHANGED <<started, gridSize, userPlayer, aiPlayer, scores,
                   winningCombinations, availableCells, board, currentPlayer,
                   winner, pointerEvents, cells, winnerElements, search, moves>>

(* nextTurn, line 162, and getBestMove, lines 139-141 *)
SearchBegin ==
    /\ pc.at = "turn"
    /\ currentPlayer = aiPlayer
    /\ pc' = [at |-> "scan", avail |-> GetAvailableCells(board), i |-> 1,
              bestScore |-> NEGATIVE_INFINITY, bestMove |-> "",
              frames |-> <<>>, ret |-> 0]
    /\ search' = [NoSearch EXCEPT !.before = board]
    /\ UNCHANGED <<started, gridSize, userPlayer, aiPlayer, scores,
                   winningCombinations, availableCells, board, currentPlayer,
                   winner, pointerEvents, cells, winnerElements, moves>>

(* getBestMove, lines 143-151: the placement and the call of minimax *)
BestMovePlace ==
    /\ pc.at = "scan"
    /\ pc.i <= Len(pc.avail)
    /\ board' = MapSetOwn(board, pc.avail[pc.i], aiPlayer)
    /\ pc' = [pc EXCEPT !.at = "call",
                        !.frames = Push(<<>>, Frame(SearchDepth, NEGATIVE_INFINITY,
                                                    POSITIVE_INFINITY, FALSE))]
    /\ UNCHANGED <<started, gridSize, userPlayer, aiPlayer, scores,
                   winningCombinations, availableCells, currentPlayer, winner,
                   pointerEvents, cells, winnerElements, search, moves>>

(* minimax, lines 103-110 and 121: the two returns, or the loop is set up *)
MinimaxEnter ==
    /\ pc.at = "call"
    /\ pc' = IF GetWinner(This, board) # Null
             THEN [pc EXCEPT !.at = "return",
                             !.ret = scores[GetWinner(This, board)],
                             !.frames = Pop(pc.frames)]
             ELSE IF Top(pc.frames).depth = 0
             THEN [pc EXCEPT !.at = "return",
                             !.ret = scores["Draw"],
                             !.frames = Pop(pc.frames)]
             ELSE [pc EXCEPT !.at = "loop",
                             !.frames = ReplaceTop(pc.frames,
                                 [Top(pc.frames) EXCEPT
                                     !.avail = GetAvailableCells(board),
                                     !.i = 1,
                                     !.bestScore = IF Top(pc.frames).isMaximizing
                                                   THEN NEGATIVE_INFINITY
                                                   ELSE POSITIVE_INFINITY])]
    /\ UNCHANGED <<started, gridSize, userPlayer, aiPlayer, scores,
                   winningCombinations, availableCells, board, currentPlayer,
                   winner, pointerEvents, cells, winnerElements, search, moves>>

(* minimax, lines 111-113 and 122-124: the placement and the recursive call *)
MinimaxPlace ==
    /\ pc.at = "loop"
    /\ Top(pc.frames).i <= Len(Top(pc.frames).avail)
    /\ board' = MapSetOwn(board, Top(pc.frames).avail[Top(pc.frames).i],
                          IF Top(pc.frames).isMaximizing THEN aiPlayer
                                                         ELSE userPlayer)
    /\ pc' = [pc EXCEPT !.at = "call",
                        !.frames = Push(pc.frames,
                                        Frame(Top(pc.frames).depth - 1,
                                              Top(pc.frames).alpha,
                                              Top(pc.frames).beta,
                                              ~Top(pc.frames).isMaximizing))]
    /\ UNCHANGED <<started, gridSize, userPlayer, aiPlayer, scores,
                   winningCombinations, availableCells, currentPlayer, winner,
                   pointerEvents, cells, winnerElements, search, moves>>

(* minimax, lines 119 and 130: the loop is over *)
MinimaxExhausted ==
    /\ pc.at = "loop"
    /\ Top(pc.frames).i > Len(Top(pc.frames).avail)
    /\ pc' = [pc EXCEPT !.at = "return",
                        !.ret = Top(pc.frames).bestScore,
                        !.frames = Pop(pc.frames)]
    /\ UNCHANGED <<started, gridSize, userPlayer, aiPlayer, scores,
                   winningCombinations, availableCells, board, currentPlayer,
                   winner, pointerEvents, cells, winnerElements, search, moves>>

(* minimax, lines 114-117 and 125-128, after the recursive call returned:   *)
(* the revert, the best score, alpha or beta, and the break                 *)
MinimaxResume ==
    /\ pc.at = "return"
    /\ pc.frames # <<>>
    /\ LET f == Top(pc.frames)
           best2 == IF f.isMaximizing THEN Max(f.bestScore, pc.ret)
                                      ELSE Min(f.bestScore, pc.ret)
           alpha2 == IF f.isMaximizing THEN Max(f.alpha, pc.ret) ELSE f.alpha
           beta2 == IF f.isMaximizing THEN f.beta ELSE Min(f.beta, pc.ret)
       IN  /\ board' = Revert(board, f.avail[f.i])
           /\ pc' = IF Prune(alpha2, beta2)
                    THEN [pc EXCEPT !.ret = best2, !.frames = Pop(pc.frames)]
                    ELSE [pc EXCEPT !.at = "loop",
                                    !.frames = ReplaceTop(pc.frames,
                                        [f EXCEPT !.i = @ + 1,
                                                  !.bestScore = best2,
                                                  !.alpha = alpha2,
                                                  !.beta = beta2])]
    /\ UNCHANGED <<started, gridSize, userPlayer, aiPlayer, scores,
                   winningCombinations, availableCells, currentPlayer, winner,
                   pointerEvents, cells, winnerElements, search, moves>>

(* getBestMove, lines 152-156, after minimax returned *)
BestMoveResume ==
    /\ pc.at = "return"
    /\ pc.frames = <<>>
    /\ board' = Revert(board, pc.avail[pc.i])
    /\ pc' = IF Better(pc.ret, pc.bestScore)
             THEN [pc EXCEPT !.at = "scan", !.i = @ + 1,
                             !.bestScore = pc.ret,
                             !.bestMove = pc.avail[pc.i]]
             ELSE [pc EXCEPT !.at = "scan", !.i = @ + 1]
    /\ UNCHANGED <<started, gridSize, userPlayer, aiPlayer, scores,
                   winningCombinations, availableCells, currentPlayer, winner,
                   pointerEvents, cells, winnerElements, search, moves>>

(* getBestMove, line 158 *)
BestMoveReturn ==
    /\ pc.at = "scan"
    /\ pc.i > Len(pc.avail)
    /\ pc' = [pc EXCEPT !.at = "done"]
    /\ search' = [called |-> TRUE, before |-> search.before, move |-> pc.bestMove,
                  score |-> pc.bestScore, after |-> board]
    /\ UNCHANGED <<started, gridSize, userPlayer, aiPlayer, scores,
                   winningCombinations, availableCells, board, currentPlayer,
                   winner, pointerEvents, cells, winnerElements, moves>>

(* nextTurn, line 164: makeMove with the move of the search, lines 183-197  *)
SearchMove ==
    /\ pc.at = "done"
    /\ IF Truthy(MapGet(board, pc.bestMove))
       THEN /\ pc' = Idle
            /\ UNCHANGED <<board, moves, winner, winnerElements, pointerEvents,
                           currentPlayer>>
       ELSE /\ board' = MapSet(board, pc.bestMove, currentPlayer)
            /\ moves' = Append(moves, [position |-> pc.bestMove,
                                       player |-> currentPlayer])
            /\ IF Truthy(GetWinner(This, board'))
               THEN /\ winner' = GetWinner(This, board')
                    /\ winnerElements' = winnerElements + 1
                    /\ pointerEvents' = "none"
                    /\ pc' = Idle
                    /\ UNCHANGED currentPlayer
               ELSE /\ currentPlayer' = Other(This, currentPlayer)
                    /\ pc' = [Idle EXCEPT !.at = "turn"]
                    /\ UNCHANGED <<winner, winnerElements, pointerEvents>>
    /\ UNCHANGED <<started, gridSize, userPlayer, aiPlayer, scores,
                   winningCombinations, availableCells, cells, search>>

(* a click on a Play Again button, between handlers *)
SearchResetGame ==
    /\ pc.at = "idle"
    /\ ResetGame

SearchStep ==
    \/ TurnSkipped
    \/ SearchBegin
    \/ BestMovePlace
    \/ MinimaxEnter
    \/ MinimaxPlace
    \/ MinimaxExhausted
    \/ MinimaxResume
    \/ BestMoveResume
    \/ BestMoveReturn
    \/ SearchMove

NextSearch ==
    \/ \E position \in Positions : SearchUserMove(position)
    \/ SearchResetGame
    \/ SearchStep

SpecSearch == InitSearch /\ [][NextSearch]_vars

(* the program keeps running: a step of the search that can be taken is taken *)
SpecSearchFair == SpecSearch /\ WF_vars(SearchStep)

----------------------------------------------------------------------------
(* What the claims speak of, stated without the program's own procedures *)

(* the rows, the columns and the two diagonals of the 3x3 grid, as sets *)
Lines ==
    {{Key(i, j) : j \in 0..(GridSize - 1)} : i \in 0..(GridSize - 1)}
    \cup {{Key(j, i) : j \in 0..(GridSize - 1)} : i \in 0..(GridSize - 1)}
    \cup {{Key(i, i) : i \in 0..(GridSize - 1)}}
    \cup {{Key(i, GridSize - 1 - i) : i \in 0..(GridSize - 1)}}

(* the cells in row-major order *)
RowMajor == [k \in 1..(GridSize * GridSize) |->
                Key((k - 1) \div GridSize, (k - 1) % GridSize)]

HasLine(v, p) == \E l \in Lines : \A k \in l : v[k] = p

EmptyCells(v) == {k \in Positions : v[k] = Null}

(* placing p on the empty cell completes a line of p *)
Completes(v, p, cell) ==
    /\ v[cell] = Null
    /\ \E l \in Lines : cell \in l /\ \A k \in l \ {cell} : v[k] = p

WinningCells(v, p) == {cell \in Positions : Completes(v, p, cell)}

(* plain exhaustive minimax: the value of position v for player ai, +1 a    *)
(* win of ai, 0 a draw, -1 a win of us, with ai to move iff aiToMove        *)
RECURSIVE PlainValue(_, _, _, _)
PlainValue(v, ai, us, aiToMove) ==
    IF \E l \in Lines : \A k \in l : v[k] = ai THEN 1
    ELSE IF \E l \in Lines : \A k \in l : v[k] = us THEN -1
    ELSE IF \A k \in Positions : v[k] # Null THEN 0
    ELSE IF aiToMove
         THEN LET values == {PlainValue([v EXCEPT ![k] = ai], ai, us, FALSE) :
                                k \in {c \in Positions : v[c] = Null}}
              IN  IF 1 \in values THEN 1 ELSE IF 0 \in values THEN 0 ELSE -1
         ELSE LET values == {PlainValue([v EXCEPT ![k] = us], ai, us, TRUE) :
                                k \in {c \in Positions : v[c] = Null}}
              IN  IF -1 \in values THEN -1 ELSE IF 0 \in values THEN 0 ELSE 1

(* the first cell in row-major order with the strictly highest plain value *)
PlainBestMove(v, ai, us) ==
    LET scored == {<<k, PlainValue([v EXCEPT ![RowMajor[k]] = ai], ai, us, FALSE)>> :
                      k \in {i \in 1..Len(RowMajor) : v[RowMajor[i]] = Null}}
        best == CHOOSE p \in scored :
                    \A q \in scored : /\ q[2] <= p[2]
                                      /\ (q[1] < p[1] => q[2] < p[2])
    IN  RowMajor[best[1]]

----------------------------------------------------------------------------
(* C1: in a 3x3 game, for either user symbol and every sequence of user    *)
(* moves, the game never ends with the user's symbol as winner: a winner   *)
(* is the AI's symbol or Draw.                                             *)
C1_UserNeverWins ==
    (started /\ winner # Null) => winner \in {aiPlayer, "Draw"}

C1_Witness_AiWon == started /\ winner = aiPlayer /\ HasLine(board.vals, aiPlayer)

(* C3: on every board getBestMove is called on in a game, the cell it       *)
(* returns is the cell plain exhaustive minimax without pruning selects,    *)
(* scanning the empty cells in row-major order and keeping the first cell   *)
(* with the strictly highest score.                                         *)
C3_SameMoveAsPlainMinimax ==
    search.called =>
        search.move = PlainBestMove(search.before.vals, aiPlayer, userPlayer)

C3_Witness_AiMovedOnEmptyBoard ==
    /\ search.called
    /\ EmptyCells(search.before.vals) = Positions
    /\ search.move \in Positions

(* C4: getBestMove leaves the board as it found it: every hypothetical      *)
(* placement, its own and those of every minimax call, cut short by the     *)
(* alpha >= beta break or not, is reverted.                                 *)
C4_BoardUnchangedBySearch ==
    search.called => search.after = search.before

C4_Witness_SearchOnPartBoard ==
    /\ search.called
    /\ Cardinality(EmptyCells(search.before.vals)) = 6
    /\ search.after.vals[search.move] = Null

(* C5 as claimed: whenever an empty cell would complete a winning           *)
(* combination for the AI, getBestMove returns such a cell.                 *)
C5_TakesImmediateWin ==
    (search.called /\ WinningCells(search.before.vals, aiPlayer) # {})
        => search.move \in WinningCells(search.before.vals, aiPlayer)

(* C5 as amended: whenever an empty cell would complete a winning           *)
(* combination for the AI, getBestMove returns the first empty cell in      *)
(* row-major order after which the AI wins under every reply (its score is  *)
(* the AI-win score), which need not be a completing cell; with the AI at   *)
(* (0,0), (0,1) and (0,2) empty it returns (0,2).                           *)
C5_TakesFirstWinningMove ==
    (search.called /\ WinningCells(search.before.vals, aiPlayer) # {})
        => /\ search.score = scores[aiPlayer]
           /\ search.move \in EmptyCells(search.before.vals)
           /\ PlainValue([search.before.vals EXCEPT ![search.move] = aiPlayer],
                         aiPlayer, userPlayer, FALSE) = 1
           /\ \A k \in 1..Len(RowMajor) :
                 ( /\ search.before.vals[RowMajor[k]] = Null
                   /\ PlainValue([search.before.vals EXCEPT ![RowMajor[k]] = aiPlayer],
                                 aiPlayer, userPlayer, FALSE) = 1 )
                 => \E m \in 1..k : RowMajor[m] = search.move
           /\ ( /\ search.before.vals["00"] = aiPlayer
                /\ search.before.vals["01"] = aiPlayer
                /\ search.before.vals["02"] = Null )
              => search.move = "02"

C5_Witness_TopRowCompleted ==
    /\ search.called
    /\ search.before.vals["00"] = aiPlayer
    /\ search.before.vals["01"] = aiPlayer
    /\ search.before.vals["02"] = Null
    /\ search.move = "02"
    /\ winner = aiPlayer

(* C6: in every game, when the user has an empty cell that would complete a *)
(* combination for the user and the AI has none for itself, getBestMove     *)
(* returns one of the user's completing cells.                              *)
C6_BlocksImmediateLoss ==
    ( /\ search.called
      /\ WinningCells(search.before.vals, userPlayer) # {}
      /\ WinningCells(search.before.vals, aiPlayer) = {} )
        => search.move \in WinningCells(search.before.vals, userPlayer)

C6_Witness_Blocked ==
    /\ search.called
    /\ WinningCells(search.before.vals, userPlayer) # {}
    /\ WinningCells(search.before.vals, aiPlayer) = {}
    /\ board.vals[search.move] = aiPlayer
    /\ search.move \in WinningCells(search.before.vals, userPlayer)

(* C10: once winner is X, O or Draw, no cell of the board changes and       *)
(* currentPlayer does not change, by a click or by the AI, until resetGame  *)
(* runs.                                                                    *)
C10_NoMoveAfterGameOver ==
    [][(started /\ winner # Null)
          => \/ board' = board /\ currentPlayer' = currentPlayer
             \/ ResetGame]_vars

C10_Witness_WonWithEmptyCells ==
    /\ started
    /\ winner \in Players
    /\ pointerEvents = "none"
    /\ EmptyCells(board.vals) # {}

(* C2: from the empty 3x3 board, with the AI moving first and both sides    *)
(* choosing every move by getBestMove, each maximizing its own score, the   *)
(* game ends in Draw.                                                       *)
C2_SelfPlayEndsInDraw ==
    /\ winner \in {Null, "Draw"}
    /\ (pc.at = "idle" /\ EmptyCells(board.vals) = {}) => winner = "Draw"

C2_Witness_DrawReached ==
    /\ pc.at = "idle"
    /\ winner = "Draw"
    /\ EmptyCells(board.vals) = {}
    /\ ~HasLine(board.vals, "X")
    /\ ~HasLine(board.vals, "O")

(* C7: getWinner returns a player's symbol iff some combination is entirely *)
(* that player's, Draw iff no combination is entirely one player's and no   *)
(* cell is empty, and null otherwise; a board that is full and holds a      *)
(* completed combination reports that player, never Draw.                   *)
C7_GetWinnerIsTheOutcome ==
    /\ winner = "X" <=> HasLine(board.vals, "X")
    /\ winner = "O" <=> HasLine(board.vals, "O")
    /\ winner = "Draw" <=> ( /\ ~HasLine(board.vals, "X")
                             /\ ~HasLine(board.vals, "O")
                             /\ EmptyCells(board.vals) = {} )
    /\ winner = Null <=> ( /\ ~HasLine(board.vals, "X")
                           /\ ~HasLine(board.vals, "O")
                           /\ EmptyCells(board.vals) # {} )

C7_Witness_FullAndWon ==
    /\ EmptyCells(board.vals) = {}
    /\ HasLine(board.vals, "X")
    /\ winner = "X"

(* C8 as claimed: for every gridSize >= 1 there are 2*gridSize + 2          *)
(* combinations, each of gridSize positions, all in bounds and pairwise     *)
(* distinct, and no two combinations are the same.                          *)
InBounds(n) == {Key(i, j) : i, j \in 0..(n - 1)}

CombinationsWellFormed ==
    /\ Len(winningCombinations) = 2 * gridSize + 2
    /\ \A c \in 1..Len(winningCombinations) :
          /\ Len(winningCombinations[c]) = gridSize
          /\ \A j \in 1..gridSize : winningCombinations[c][j] \in InBounds(gridSize)

PositionsDistinct ==
    \A c \in 1..Len(winningCombinations) :
        \A j, k \in 1..Len(winningCombinations[c]) :
            j # k => winningCombinations[c][j] # winningCombinations[c][k]

CombinationsDistinct ==
    \A c, d \in 1..Len(winningCombinations) :
        c # d => winningCombinations[c] # winningCombinations[d]

C8_CombinationsKept ==
    [][started => winningCombinations' = winningCombinations]_vars

(* C9: makeMove on a position that is occupied or out of range of the grid  *)
(* leaves the state unchanged: no cell changes, no key is added, and        *)
(* currentPlayer and winner stay the same (so no AI move is made).          *)
C9_IllegalMoveChangesNothing ==
    [][\A position \in Positions \cup {OutOfRange} :
          ( /\ \/ Truthy(MapGet(board, position))
               \/ position \notin Positions
            /\ MakeMoveCall(position) )
          => UNCHANGED <<board, currentPlayer, winner>>]_vars

(* C9, the half the code keeps: makeMove on an occupied position changes    *)
(* nothing.                                                                 *)
C9_OccupiedMoveChangesNothing ==
    [][\A position \in Positions \cup {OutOfRange} :
          (Truthy(MapGet(board, position)) /\ MakeMoveCall(position))
          => UNCHANGED <<board, currentPlayer, winner>>]_vars

----------------------------------------------------------------------------
(* the marks of player p among the moves of the round *)
MovesOf(p) == {k \in 1..Len(moves) : moves[k].player = p}

(* C11: within a round the turn alternates strictly: an accepted move that  *)
(* does not end the game hands the turn to the other player, so two         *)
(* consecutive marks of a round belong to different players, and the        *)
(* numbers of X marks and of O marks on the board differ by at most one.    *)
C11_TurnAlternates ==
    started =>
        /\ \A k \in 1..Len(moves) :
              /\ moves[k].player \in Players
              /\ board.vals[moves[k].position] = moves[k].player
        /\ \A k \in 1..(Len(moves) - 1) : moves[k + 1].player # moves[k].player
        /\ (winner = Null /\ moves # <<>>)
              => currentPlayer # moves[Len(moves)].player
        /\ Cardinality({c \in Positions : board.vals[c] = "X"})
             - Cardinality({c \in Positions : board.vals[c] = "O"}) \in {-1, 0, 1}

C11_Witness_EightMarksInTurn ==
    /\ started
    /\ winner = Null
    /\ Len(moves) = 8
    /\ moves[1].player = "O"
    /\ moves[8].player = "X"
    /\ Cardinality(MovesOf("X")) = 4
    /\ Cardinality(MovesOf("O")) = 4

(* a board that is won or has no empty cell *)
Terminal(v) == HasLine(v, "X") \/ HasLine(v, "O") \/ EmptyCells(v) = {}

(* C12: getBestMove called on a terminal board fails with a NoLegalMove     *)
(* error rather than returning a position: no call on a terminal board      *)
(* returns.                                                                 *)
C12_TerminalBoardFails ==
    ~(search.called /\ Terminal(search.before.vals))

(* C12, what the code does instead: on a terminal board the call returns,   *)
(* the empty string when no cell is empty and an empty cell otherwise, and  *)
(* leaves the board as it was.                                              *)
C12_TerminalBoardReturns ==
    (search.called /\ Terminal(search.before.vals))
        => /\ IF EmptyCells(search.before.vals) = {}
              THEN search.move = ""
              ELSE search.move \in EmptyCells(search.before.vals)
           /\ search.after = search.before

(* C13: after resetGame, for either user symbol, every cell of the board is *)
(* empty, winner is null and currentPlayer is the user's symbol, and the AI *)
(* places no mark before the user has moved: the first move of a restarted  *)
(* round is the user's.                                                     *)
C13_UserStartsAfterReset ==
    [][ /\ ResetGame
           => /\ EmptyCells(board'.vals) = Positions
              /\ winner' = Null
              /\ currentPlayer' = userPlayer'
              /\ ~search'.called
              /\ moves' = <<>>
        /\ (started /\ moves = <<>> /\ moves' # <<>>)
           => /\ moves'[1].player = userPlayer
              /\ board'.vals[moves'[1].position] = userPlayer ]_vars

C13_Witness_RestartedForO ==
    /\ started
    /\ userPlayer = "O"
    /\ moves = <<>>
    /\ EmptyCells(board.vals) = Positions
    /\ winner = Null
    /\ currentPlayer = "O"
    /\ winnerElements = 0

(* C14: when a game is constructed, the player who places the first mark of *)
(* the first round is the player passed to the constructor, the user, for   *)
(* userPlayer X and for userPlayer O.                                       *)
C14_UserOpensFirstRound ==
    [][(~started /\ started')
          => IF moves' = <<>>
             THEN currentPlayer' = userPlayer'
             ELSE moves'[1].player = userPlayer']_vars

(* C14, what the code does: X opens the first round, whoever plays X.       *)
C14_XOpensFirstRound ==
    [][(~started /\ started')
          => IF moves' = <<>>
             THEN currentPlayer' = "X" /\ userPlayer' = "X"
             ELSE /\ moves'[1].player = "X"
                  /\ aiPlayer' = "X"
                  /\ Len(moves') = 1
                  /\ currentPlayer' = userPlayer']_vars

(* C15: for either assignment of the symbols, the score table the search    *)
(* uses has score(AI's symbol) > score(Draw) > score(user's symbol), namely *)
(* +1, 0 and -1, and nothing changes it after construction: no move, no     *)
(* search, no resetGame.                                                    *)
C15_ScoresOrderedAndKept ==
    /\ [](started => /\ scores[aiPlayer] = 1
                      /\ scores["Draw"] = 0
                      /\ scores[userPlayer] = -1
                      /\ scores[aiPlayer] > scores["Draw"]
                      /\ scores["Draw"] > scores[userPlayer]
                      /\ DOMAIN scores = {"X", "O", "Draw"})
    /\ [][started => scores' = scores]_vars

C15_Witness_AiPlaysO ==
    /\ started
    /\ aiPlayer = "O"
    /\ scores["O"] = 1
    /\ scores["X"] = -1
    /\ search.called
    /\ search.score = 0
    /\ Len(moves) = 4

(* C16: in every state between event handlers, the board has exactly        *)
(* gridSize*gridSize keys, one per in-range (row, col) pair, each holding   *)
(* null, X or O; the number of non-empty cells is the number of moves       *)
(* accepted since the round started; and within a round a non-empty cell    *)
(* never becomes empty or changes its symbol.                               *)
C16_BoardShapeAndMarksKept ==
    /\ [](started
            => /\ Len(board.keys) = gridSize * gridSize
               /\ {board.keys[k] : k \in 1..Len(board.keys)} = InBounds(gridSize)
               /\ DOMAIN board.vals = InBounds(gridSize)
               /\ \A c \in InBounds(gridSize) : board.vals[c] \in {Null, "X", "O"}
               /\ Cardinality({c \in InBounds(gridSize) : board.vals[c] # Null})
                    = Len(moves))
    /\ [][(started /\ ~ResetGame)
             => \A c \in InBounds(gridSize) :
                    board.vals[c] # Null => board'.vals[c] = board.vals[c]]_vars

C16_Witness_FullBoardNineMoves ==
    /\ started
    /\ Len(moves) = 9
    /\ Len(board.keys) = 9
    /\ \A c \in Positions : board.vals[c] \in Players
    /\ winner = "Draw"

(* C17: in every game, getBestMove is only called on a board that is not    *)
(* won and has an empty cell, and the position it returns is an empty       *)
(* in-range cell of that board, never the initial empty string and never an *)
(* occupied cell, so makeMove accepts the AI's move.                        *)
C17_SearchOnlyOnLiveBoard ==
    search.called
        => /\ ~Terminal(search.before.vals)
           /\ EmptyCells(search.before.vals) # {}
           /\ search.move # ""
           /\ search.move \in Positions
           /\ search.before.vals[search.move] = Null
           /\ board.vals[search.move] = aiPlayer
           /\ moves # <<>>
           /\ moves[Len(moves)] = [position |-> search.move, player |-> aiPlayer]
           /\ \A c \in Positions \ {search.move} : board.vals[c] = search.before.vals[c]

C17_Witness_LastCellTaken ==
    /\ search.called
    /\ Cardinality(EmptyCells(search.before.vals)) = 1
    /\ search.move \in EmptyCells(search.before.vals)
    /\ EmptyCells(board.vals) = {}
    /\ moves[Len(moves)].position = search.move

(* C18: whenever no handler is running and winner is null, currentPlayer is *)
(* the user's symbol: every accepted user move that does not end the game   *)
(* is followed, within the same handler, by exactly one AI move, and an AI  *)
(* move is never followed by another AI move.                               *)
C18_UserToMoveBetweenHandlers ==
    /\ [](started
            => /\ winner = Null => currentPlayer = userPlayer
               /\ \A k \in 1..(Len(moves) - 1) :
                     moves[k].player = aiPlayer => moves[k + 1].player = userPlayer)
    /\ [][(started /\ moves' # moves /\ moves' # <<>>)
             => /\ Len(moves') \in {Len(moves) + 1, Len(moves) + 2}
                /\ SubSeq(moves', 1, Len(moves)) = moves
                /\ moves'[Len(moves) + 1].player = userPlayer
                /\ Len(moves') = Len(moves) + 1 => (winner' # Null /\ ~search'.called)
                /\ Len(moves') = Len(moves) + 2
                      => /\ moves'[Len(moves) + 2].player = aiPlayer
                         /\ search'.called]_vars

C18_Witness_AiAnsweredThrice ==
    /\ started
    /\ winner = Null
    /\ currentPlayer = userPlayer
    /\ Len(moves) = 6
    /\ moves[5].player = userPlayer
    /\ moves[6].player = aiPlayer
    /\ search.called

(* the search run step by step returns what getBestMove returns as a whole  *)
StepwiseSearchAgrees ==
    (pc.at = "done")
        => /\ search.move = GetBestMove(This).move
           /\ search.score = GetBestMove(This).score
           /\ search.after = search.before
           /\ board = search.before

(* C19: on the 3x3 board, in every search getBestMove starts (depth 9 after *)
(* its own placement), the depth cutoff is never taken: no minimax call is  *)
(* made with depth 0 on a board that has not ended, so every score returned *)
(* is that of a real outcome; and the test of the outcome comes before the  *)
(* test of the depth (at depth 0 a won board scores as won, not as a draw). *)
C19_DepthCutoffNeverTaken ==
    /\ pc.at = "call"
          => /\ Top(pc.frames).depth = 0 => Terminal(board.vals)
             /\ Top(pc.frames).depth = SearchDepth - (Len(pc.frames) - 1)
             /\ Top(pc.frames).depth >= 1
             /\ HasLine(board.vals, aiPlayer)
                   => Minimax(This, board, 0, NEGATIVE_INFINITY, POSITIVE_INFINITY,
                              Top(pc.frames).isMaximizing).score = 1
             /\ HasLine(board.vals, userPlayer)
                   => Minimax(This, board, 0, NEGATIVE_INFINITY, POSITIVE_INFINITY,
                              Top(pc.frames).isMaximizing).score = -1
    /\ pc.at = "return" => pc.ret \in {-1, 0, 1}

C19_Witness_DeepestCall ==
    /\ pc.at = "call"
    /\ Len(pc.frames) = 9
    /\ Top(pc.frames).depth = 1
    /\ EmptyCells(board.vals) = {}
    /\ HasLine(board.vals, aiPlayer)

(* C20: every call of getBestMove on a board that has not ended terminates: *)
(* each minimax call is made on a board with strictly fewer empty cells     *)
(* than the board its caller placed the mark on, and a call on a board      *)
(* without empty cell returns at once with the score of the outcome,        *)
(* without a loop and without a further call.                               *)
C20_SearchTerminates ==
    /\ (pc.at = "scan") ~> (pc.at = "done")
    /\ [][ /\ pc'.at = "call"
               => Cardinality(EmptyCells(board'.vals))
                    < Cardinality(EmptyCells(board.vals))
           /\ (pc.at = "call" /\ EmptyCells(board.vals) = {})
               => /\ pc'.at = "return"
                  /\ pc'.frames = Pop(pc.frames)
                  /\ board' = board
                  /\ pc'.ret = IF HasLine(board.vals, aiPlayer) THEN 1
                               ELSE IF HasLine(board.vals, userPlayer) THEN -1
                               ELSE 0 ]_vars

C20_Witness_SearchFromEmptyBoardDone ==
    /\ pc.at = "done"
    /\ search.called
    /\ EmptyCells(search.before.vals) = Positions
    /\ search.move \in Positions
    /\ board = search.before

====
